---------------------------- MODULE Spec2Model ----------------------------
(***************************************************************************)
(* Threshold secret sharing over GF(256) (package tss, src/tss.go):        *)
(* the field arithmetic on the log/antilog tables, CreateShares and        *)
(* RecoverSecret, and the properties of the two operations.                *)
(*                                                                         *)
(* A byte is an integer in 0..255.  A Go slice is a sequence; Go's index i *)
(* is index i+1 here.  A nil slice is the empty sequence: neither          *)
(* operation returns an empty non-nil slice.                               *)
(***************************************************************************)
EXTENDS Integers, Sequences, FiniteSets

(***************************************************************************)
(* Program constants (src/tss.go, const block).                            *)
(***************************************************************************)
MinSecretBytes == 32
MaxSecretBytes == 65534
MaxShareBytes == MaxSecretBytes + 1
MinShareBytes == MinSecretBytes + 1
MinShares == 2
MaxShares == 255

(***************************************************************************)
(* The error values (src/tss.go, var block) and the outcomes that are not  *)
(* one of them.                                                            *)
(***************************************************************************)
NoErr == "nil"
ErrTooFewShares == "too few shares"
ErrSecretRequired == "some secret is required"
ErrSecretTooShort == "secret too short"
ErrSecretTooLarge == "secret too large"
ErrTooManyShares == "too many shares"
ErrInvalidThreshold == "invalid threshold"
ErrInvalidShare == "invalid share"
\* the error rand.Read hands back when the entropy source fails
ErrEntropy == "entropy source failure"

\* how a call ended: by returning, or by one of Go's run-time panics
Returned == "returned"
PanicMakeslice == "panic: makeslice: len out of range"
PanicIndex == "panic: index out of range"

Byte == 0..255

(***************************************************************************)
(* The tables.  expOp is the exponential table written twice (510          *)
(* entries), logOp the logarithm table (256 entries, entry 0 unused).      *)
(***************************************************************************)
expOp == <<
    1, 3, 5, 15, 17, 51, 85, 255, 26, 46, 114, 150, 161, 248, 19, 53,
    95, 225, 56, 72, 216, 115, 149, 164, 247, 2, 6, 10, 30, 34, 102, 170,
    229, 52, 92, 228, 55, 89, 235, 38, 106, 190, 217, 112, 144, 171, 230, 49,
    83, 245, 4, 12, 20, 60, 68, 204, 79, 209, 104, 184, 211, 110, 178, 205,
    76, 212, 103, 169, 224, 59, 77, 215, 98, 166, 241, 8, 24, 40, 120, 136,
    131, 158, 185, 208, 107, 189, 220, 127, 129, 152, 179, 206, 73, 219, 118, 154,
    181, 196, 87, 249, 16, 48, 80, 240, 11, 29, 39, 105, 187, 214, 97, 163,
    254, 25, 43, 125, 135, 146, 173, 236, 47, 113, 147, 174, 233, 32, 96, 160,
    251, 22, 58, 78, 210, 109, 183, 194, 93, 231, 50, 86, 250, 21, 63, 65,
    195, 94, 226, 61, 71, 201, 64, 192, 91, 237, 44, 116, 156, 191, 218, 117,
    159, 186, 213, 100, 172, 239, 42, 126, 130, 157, 188, 223, 122, 142, 137, 128,
    155, 182, 193, 88, 232, 35, 101, 175, 234, 37, 111, 177, 200, 67, 197, 84,
    252, 31, 33, 99, 165, 244, 7, 9, 27, 45, 119, 153, 176, 203, 70, 202,
    69, 207, 74, 222, 121, 139, 134, 145, 168, 227, 62, 66, 198, 81, 243, 14,
    18, 54, 90, 238, 41, 123, 141, 140, 143, 138, 133, 148, 167, 242, 13, 23,
    57, 75, 221, 124, 132, 151, 162, 253, 28, 36, 108, 180, 199, 82, 246, 1,
    3, 5, 15, 17, 51, 85, 255, 26, 46, 114, 150, 161, 248, 19, 53, 95,
    225, 56, 72, 216, 115, 149, 164, 247, 2, 6, 10, 30, 34, 102, 170, 229,
    52, 92, 228, 55, 89, 235, 38, 106, 190, 217, 112, 144, 171, 230, 49, 83,
    245, 4, 12, 20, 60, 68, 204, 79, 209, 104, 184, 211, 110, 178, 205, 76,
    212, 103, 169, 224, 59, 77, 215, 98, 166, 241, 8, 24, 40, 120, 136, 131,
    158, 185, 208, 107, 189, 220, 127, 129, 152, 179, 206, 73, 219, 118, 154, 181,
    196, 87, 249, 16, 48, 80, 240, 11, 29, 39, 105, 187, 214, 97, 163, 254,
    25, 43, 125, 135, 146, 173, 236, 47, 113, 147, 174, 233, 32, 96, 160, 251,
    22, 58, 78, 210, 109, 183, 194, 93, 231, 50, 86, 250, 21, 63, 65, 195,
    94, 226, 61, 71, 201, 64, 192, 91, 237, 44, 116, 156, 191, 218, 117, 159,
    186, 213, 100, 172, 239, 42, 126, 130, 157, 188, 223, 122, 142, 137, 128, 155,
    182, 193, 88, 232, 35, 101, 175, 234, 37, 111, 177, 200, 67, 197, 84, 252,
    31, 33, 99, 165, 244, 7, 9, 27, 45, 119, 153, 176, 203, 70, 202, 69,
    207, 74, 222, 121, 139, 134, 145, 168, 227, 62, 66, 198, 81, 243, 14, 18,
    54, 90, 238, 41, 123, 141, 140, 143, 138, 133, 148, 167, 242, 13, 23, 57,
    75, 221, 124, 132, 151, 162, 253, 28, 36, 108, 180, 199, 82, 246 >>

logOp == <<
    0, 0, 25, 1, 50, 2, 26, 198, 75, 199, 27, 104, 51, 238, 223, 3,
    100, 4, 224, 14, 52, 141, 129, 239, 76, 113, 8, 200, 248, 105, 28, 193,
    125, 194, 29, 181, 249, 185, 39, 106, 77, 228, 166, 114, 154, 201, 9, 120,
    101, 47, 138, 5, 33, 15, 225, 36, 18, 240, 130, 69, 53, 147, 218, 142,
    150, 143, 219, 189, 54, 208, 206, 148, 19, 92, 210, 241, 64, 70, 131, 56,
    102, 221, 253, 48, 191, 6, 139, 98, 179, 37, 226, 152, 34, 136, 145, 16,
    126, 110, 72, 195, 163, 182, 30, 66, 58, 107, 40, 84, 250, 133, 61, 186,
    43, 121, 10, 21, 155, 159, 94, 202, 78, 212, 172, 229, 243, 115, 167, 87,
    175, 88, 168, 80, 244, 234, 214, 116, 79, 174, 233, 213, 231, 230, 173, 232,
    44, 215, 117, 122, 235, 22, 11, 245, 89, 203, 95, 176, 156, 169, 81, 160,
    127, 12, 246, 111, 23, 196, 73, 236, 216, 67, 31, 45, 164, 118, 123, 183,
    204, 187, 62, 90, 251, 96, 177, 134, 59, 82, 161, 108, 170, 85, 41, 157,
    151, 178, 135, 144, 97, 190, 220, 252, 188, 149, 207, 205, 55, 63, 91, 209,
    83, 57, 132, 60, 65, 162, 109, 71, 20, 42, 158, 93, 86, 242, 211, 171,
    68, 17, 146, 217, 35, 32, 46, 137, 180, 124, 184, 38, 119, 153, 227, 165,
    103, 74, 237, 222, 197, 49, 254, 24, 13, 99, 140, 128, 192, 247, 112, 7 >>

(***************************************************************************)
(* Field arithmetic.                                                       *)
(***************************************************************************)
\* a ^ b for a, b in 0..15, at index 16 * a + b + 1
xorNibble == <<
    0, 1, 2, 3, 4, 5, 6, 7, 8, 9, 10, 11, 12, 13, 14, 15,
    1, 0, 3, 2, 5, 4, 7, 6, 9, 8, 11, 10, 13, 12, 15, 14,
    2, 3, 0, 1, 6, 7, 4, 5, 10, 11, 8, 9, 14, 15, 12, 13,
    3, 2, 1, 0, 7, 6, 5, 4, 11, 10, 9, 8, 15, 14, 13, 12,
    4, 5, 6, 7, 0, 1, 2, 3, 12, 13, 14, 15, 8, 9, 10, 11,
    5, 4, 7, 6, 1, 0, 3, 2, 13, 12, 15, 14, 9, 8, 11, 10,
    6, 7, 4, 5, 2, 3, 0, 1, 14, 15, 12, 13, 10, 11, 8, 9,
    7, 6, 5, 4, 3, 2, 1, 0, 15, 14, 13, 12, 11, 10, 9, 8,
    8, 9, 10, 11, 12, 13, 14, 15, 0, 1, 2, 3, 4, 5, 6, 7,
    9, 8, 11, 10, 13, 12, 15, 14, 1, 0, 3, 2, 5, 4, 7, 6,
    10, 11, 8, 9, 14, 15, 12, 13, 2, 3, 0, 1, 6, 7, 4, 5,
    11, 10, 9, 8, 15, 14, 13, 12, 3, 2, 1, 0, 7, 6, 5, 4,
    12, 13, 14, 15, 8, 9, 10, 11, 4, 5, 6, 7, 0, 1, 2, 3,
    13, 12, 15, 14, 9, 8, 11, 10, 5, 4, 7, 6, 1, 0, 3, 2,
    14, 15, 12, 13, 10, 11, 8, 9, 6, 7, 4, 5, 2, 3, 0, 1,
    15, 14, 13, 12, 11, 10, 9, 8, 7, 6, 5, 4, 3, 2, 1, 0 >>

\* a ^ b, nibble by nibble
add(a, b) ==
    16 * xorNibble[16 * (a \div 16) + (b \div 16) + 1]
       + xorNibble[16 * (a % 16) + (b % 16) + 1]

\* the table looked up without the test for a zero operand
mulNoZeroTest(x, y) == expOp[logOp[x + 1] + logOp[y + 1] + 1]

mul(x, y) ==
    IF x = 0 \/ y = 0 THEN 0
    ELSE expOp[logOp[x + 1] + logOp[y + 1] + 1]

div(x, y) ==
    IF x = 0 \/ y = 0 THEN 0
    ELSE expOp[255 + logOp[x + 1] - logOp[y + 1] + 1]

\* the loop of poly from j on, with accumulator r (i, j are 1-based)
RECURSIVE polyFrom(_, _, _, _)
polyFrom(i, u, j, r) ==
    IF j > Len(u) THEN r
    ELSE polyFrom(i, u, j + 1,
                  IF j # i THEN mul(r, div(u[j], add(u[j], u[i]))) ELSE r)

\* the i-th Lagrange function evaluated at zero
poly(i, u) == polyFrom(i, u, 1, 1)

\* the loop of interpolate from i on, with accumulator r
RECURSIVE interpolateFrom(_, _, _, _)
interpolateFrom(u, v, i, r) ==
    IF i > Len(u) THEN r
    ELSE interpolateFrom(u, v, i + 1, add(r, mul(poly(i, u), v[i])))

\* a sum that leaves out the first point
interpolateSkipsFirst(u, v) == interpolateFrom(u, v, 2, 0)

interpolate(u, v) == interpolateFrom(u, v, 1, 0)

\* the loop of eval from i on, with accumulator r and running power xi
RECURSIVE evalFrom(_, _, _, _, _)
evalFrom(x, a, i, r, xi) ==
    IF i > Len(a) THEN r
    ELSE evalFrom(x, a, i + 1, add(r, mul(a[i], xi)), mul(xi, x))

eval(x, a) == evalFrom(x, a, 1, 0, 1)

\* The buffers a (CreateShares), u and v (RecoverSecret) are local to one
\* call and overwritten by erase on return; no result depends on them.

(***************************************************************************)
(* Bounds of the model.                                                    *)
(***************************************************************************)
\* share counts 2..MaxCount are generated in full, besides the limits
MaxCount == 3
\* a selection handed to RecoverSecret holds at most MaxPick shares
MaxPick == 3
\* the entropy sources that do not fail are numbered 0..MaxSeed
MaxSeed == 1
\* the share indices 1..MaxIdx, besides 255, are those a share holder is given
MaxIdx == 2

(***************************************************************************)
(* The entropy source.  rand.Read(a) either fills the buffer or returns an *)
(* error.  A source is [seed, failAt]: the failAt-th read of the call      *)
(* fails (0: none does), and the k-th byte of the i-th read is             *)
(* RandByte(seed, i, k).                                                   *)
(***************************************************************************)
RandByte(seed, i, k) == (151 * seed + 31 * i + 7 * k * k + 3) % 256

randRead(rnd, i, len) == [k \in 1..len |-> RandByte(rnd.seed, i, k)]

\* whether the i-th read, into a buffer of len bytes, returns an error: a
\* read into an empty buffer asks the source for nothing
randFails(rnd, i, len) == len > 0 /\ rnd.failAt = i

(***************************************************************************)
(* CreateShares.                                                           *)
(***************************************************************************)
\* index bytes that start at 0
indexByteFromZero(i) == i % 256

\* the index byte given to the share at (0-based) position i
indexByte(i) == (i + 1) % 256

\* the coefficient buffer of one byte offset: a filled by rand.Read, then
\* a[0] = secret[i]
\* a buffer that reaches the last coefficient only with a fixed byte
coefficientsLastFixed(secretByte, a) ==
    IF Len(a) < 2 THEN <<secretByte>>
    ELSE <<secretByte>> \o SubSeq(a, 2, Len(a) - 1) \o <<0>>

coefficients(secretByte, a) == <<secretByte>> \o Tail(a)

\* the share set after the first `done` byte offsets were processed
sharesAfter(secret, sharesCount, threshold, rnd, done) ==
    [j \in 1..sharesCount |->
        [p \in 1..(Len(secret) + 1) |->
            IF p = 1 THEN indexByte(j - 1)
            ELSE IF p - 1 <= done
                 THEN eval(indexByte(j - 1),
                           coefficients(secret[p - 1],
                                        randRead(rnd, p - 1, threshold)))
                 ELSE 0]]

\* the share set filled so far handed back with the error
entropyAbortPartial(filled, e) == [shares |-> filled, err |-> e]

\* what CreateShares hands back when a read of the entropy source failed
\* with the share set filled so far
entropyAbort(filled, e) == [shares |-> <<>>, err |-> e]

\* the number of the read (1-based) whose error ends the loop over the
\* byte offsets, 0 when no read of the loop fails
firstFailure(secretSize, threshold, rnd) ==
    IF \E i \in 1..secretSize : randFails(rnd, i, threshold)
    THEN rnd.failAt ELSE 0

CreateShares(secret, sharesCount, threshold, rnd) ==
    LET secretSize == Len(secret)
        fail == firstFailure(secretSize, threshold, rnd)
        ret(sh, e, out, r) ==
            [shares |-> sh, err |-> e, outcome |-> out, reads |-> r]
    IN
    IF secretSize = 0 THEN ret(<<>>, ErrSecretRequired, Returned, 0)
    ELSE IF secretSize < MinSecretBytes
        THEN ret(<<>>, ErrSecretTooShort, Returned, 0)
    ELSE IF secretSize > MaxSecretBytes
        THEN ret(<<>>, ErrSecretTooLarge, Returned, 0)
    ELSE IF sharesCount < MinShares
        THEN ret(<<>>, ErrTooFewShares, Returned, 0)
    ELSE IF sharesCount > MaxShares
        THEN ret(<<>>, ErrTooManyShares, Returned, 0)
    ELSE IF threshold > sharesCount
        THEN ret(<<>>, ErrInvalidThreshold, Returned, 0)
    \* a := make([]byte, threshold)
    ELSE IF threshold < 0 THEN ret(<<>>, NoErr, PanicMakeslice, 0)
    \* the first read, then a[0] = secret[0] on an empty buffer
    ELSE IF threshold = 0 THEN ret(<<>>, NoErr, PanicIndex, 1)
    ELSE IF fail # 0
        THEN LET r == entropyAbort(
                        sharesAfter(secret, sharesCount, threshold, rnd,
                                    fail - 1),
                        ErrEntropy)
             IN ret(r.shares, r.err, Returned, fail)
    ELSE ret(sharesAfter(secret, sharesCount, threshold, rnd, secretSize),
             NoErr, Returned, secretSize)

(***************************************************************************)
(* RecoverSecret.                                                          *)
(***************************************************************************)
\* the size checks made before the count checks
recoverCheckSizeFirst(shares) ==
    LET sharesCount == Len(shares) IN
    IF sharesCount > 0 /\ Len(shares[1]) < MinShareBytes THEN ErrInvalidShare
    ELSE IF sharesCount > 0 /\ Len(shares[1]) > MaxShareBytes
        THEN ErrInvalidShare
    ELSE IF sharesCount < MinShares THEN ErrTooFewShares
    ELSE IF sharesCount > MaxShares THEN ErrTooManyShares
    ELSE IF \E i \in 2..sharesCount : Len(shares[i]) # Len(shares[1])
        THEN ErrInvalidShare
    ELSE NoErr

\* the checks RecoverSecret makes before it touches a share byte: the
\* error it returns, NoErr when it goes on
recoverCheck(shares) ==
    LET sharesCount == Len(shares) IN
    IF sharesCount < MinShares THEN ErrTooFewShares
    ELSE IF sharesCount > MaxShares THEN ErrTooManyShares
    ELSE LET shareSize == Len(shares[1]) IN
         IF shareSize < MinShareBytes THEN ErrInvalidShare
         ELSE IF shareSize > MaxShareBytes THEN ErrInvalidShare
         ELSE IF \E i \in 2..sharesCount : Len(shares[i]) # shareSize
             THEN ErrInvalidShare
         ELSE NoErr

\* the interpolation of every payload offset
recoverBytes(shares) ==
    LET sharesCount == Len(shares)
        u == [i \in 1..sharesCount |-> shares[i][1]]
        secretSize == Len(shares[1]) - 1
    IN [j \in 1..secretSize |->
           interpolate(u, [i \in 1..sharesCount |-> shares[i][j + 1]])]

RecoverSecret(shares) ==
    LET e == recoverCheck(shares) IN
    IF e # NoErr THEN [secret |-> <<>>, err |-> e]
    ELSE [secret |-> recoverBytes(shares), err |-> NoErr]

(***************************************************************************)
(* The inputs the operations are called with.                              *)
(***************************************************************************)
\* a secret of the given length
secretOf(len) == [i \in 1..len |-> (11 * i + 5) % 256]

\* the secret and the two shares of TestKat, 32 bytes (tss_test.go)
KatSecret32 ==
    <<162, 23, 82, 90, 181, 202, 176, 150, 228, 85, 172, 186, 0, 164, 3, 44,
      12, 193, 161, 239, 124, 205, 40, 6, 66, 217, 148, 205, 238, 118, 148,
      202>>
KatShares32 ==
    << <<1, 111, 187, 17, 169, 38, 75, 223, 65, 136, 227, 145, 24, 39, 234,
         48, 226, 122, 40, 60, 190, 161, 119, 215, 196, 33, 82, 79, 180, 72,
         187, 254, 220>>,
       <<2, 35, 84, 212, 167, 136, 211, 110, 35, 60, 34, 214, 229, 78, 56,
         101, 171, 224, 8, 128, 77, 221, 162, 205, 153, 132, 212, 57, 63,
         185, 247, 64, 230>> >>

\* "test\0" and its two shares, the second TestKat (tss_test.go)
KatSecret == <<116, 101, 115, 116, 0>>
KatShares == << <<1, 185, 250, 7, 225, 133>>, <<2, 245, 64, 155, 69, 17>> >>

SecretLengths ==
    {0, 1, MinSecretBytes - 1, MinSecretBytes, MinSecretBytes + 1,
     MaxSecretBytes + 1}

Secrets == {secretOf(len) : len \in SecretLengths} \cup {KatSecret, KatSecret32}

ShareCounts ==
    {-1, 0, MinShares - 1} \cup MinShares..MaxCount
        \cup {MaxShares, MaxShares + 1}

Thresholds == -1..(MaxCount + 1)

EntropySources ==
    {[seed |-> s, failAt |-> 0] : s \in 0..MaxSeed}
        \cup {[seed |-> 0, failAt |-> f] : f \in {1, 2, MinSecretBytes}}

\* the positions of a share set of n shares that selections are made of
pickPositions(n) == {p \in 1..n : p < MaxPick} \cup {n}

\* the selections of a share set of n shares: the sequences of up to MaxPick
\* distinct positions, in every order, and a position taken twice
Picks(n) ==
    {sel \in UNION {[1..k -> pickPositions(n)] : k \in 0..MaxPick} :
        \A a, b \in 1..Len(sel) : a # b => sel[a] # sel[b]}
        \cup {<<p, p>> : p \in pickPositions(n)}

\* n shares of len bytes that come from no CreateShares call
madeShares(n, len) ==
    [i \in 1..n |->
        [p \in 1..len |-> IF p = 1 THEN i % 256 ELSE (7 * i + p) % 256]]

MadeSets ==
    {madeShares(c[1], c[2]) :
        c \in {<<0, 0>>, <<1, MinShareBytes>>, <<2, 0>>,
               <<2, MinShareBytes - 1>>, <<2, MinShareBytes>>,
               <<MaxPick, MinShareBytes>>,
               <<2, MaxShareBytes>>, <<2, MaxShareBytes + 1>>,
               <<MaxShares, MinShareBytes - 1>>,
               <<MaxShares + 1, MinShareBytes - 1>>,
               <<MaxShares + 1, MinShareBytes>>}}
        \cup {<<madeShares(1, a)[1], madeShares(2, b)[2]>> :
                a, b \in {MinShareBytes - 1, MinShareBytes, MinShareBytes + 1}}
        \cup {<<madeShares(3, a)[1], madeShares(3, a)[2], madeShares(3, b)[3]>> :
                a, b \in {MinShareBytes, MinShareBytes + 1}}
        \cup {KatShares, KatShares32}

(***************************************************************************)
(* What the holder of fewer than threshold shares sees at one byte offset, *)
(* and how many choices of the random coefficients agree with it.          *)
(***************************************************************************)
\* the thresholds the count is made for: it enumerates 256^(threshold-1)
\* coefficient choices
SecrecyThresholds == 2..3

HolderIndices == 1..MaxIdx \cup {MaxShares}

\* the holder's shares: k indices, ascending
holderSets(k) ==
    {xs \in [1..k -> HolderIndices] :
        \A a, b \in 1..k : a < b => xs[a] < xs[b]}

\* the secret bytes dealt, and those a holder considers
SecretBytes == {0, 116, 255}
CandidateBytes == SecretBytes \cup {1}

\* the entropy source of the byte offset dealt
DealtSource == [seed |-> 0, failAt |-> 0]

\* the share bytes CreateShares writes at one byte offset for the shares
\* with index bytes xs, from the buffer a that rand.Read filled
shareBytes(xs, secretByte, a) ==
    [i \in 1..Len(xs) |-> eval(xs[i], coefficients(secretByte, a))]

\* the number of choices of the threshold-1 random coefficients with which
\* a secret byte gives the share bytes ys at the indices xs
consistent(thr, xs, ys, secretByte) ==
    Cardinality({t \in [1..(thr - 1) -> Byte] :
                    \A i \in 1..Len(xs) :
                        eval(xs[i], coefficients(secretByte, <<0>> \o t))
                            = ys[i]})

(***************************************************************************)
(* The state: a caller that calls CreateShares and hands a selection of    *)
(* the shares to RecoverSecret, or hands RecoverSecret shares of its own.  *)
(***************************************************************************)
VARIABLES
    pc,                 \* "idle", "created", "recovered", "dealt", "considered",
                        \* "computed"
    secret, sharesCount, threshold, rnd,    \* CreateShares was called with
    shares, err, outcome, reads,            \* and ended with
    picked,                                 \* RecoverSecret was called with
    recovered, recErr,                      \* and returned
    view,               \* what a holder of too few shares sees at one offset
    tally,              \* the count for another candidate secret byte
    arith               \* a product and its quotient by the second operand

callVars == <<secret, sharesCount, threshold, rnd, shares, err, outcome,
              reads>>
recoverVars == <<picked, recovered, recErr>>
vars == <<pc, callVars, recoverVars, view, tally, arith>>

NoSource == [seed |-> 0, failAt |-> 0]
NoView == [threshold |-> 0, xs |-> <<>>, ys |-> <<>>, secretByte |-> 0,
           count |-> 0]
NoTally == [candidate |-> 0, count |-> 0]
NoArith == [x |-> 0, y |-> 0, product |-> 0, quotient |-> 0]

Init ==
    /\ pc = "idle"
    /\ secret = <<>> /\ sharesCount = 0 /\ threshold = 0 /\ rnd = NoSource
    /\ shares = <<>> /\ err = NoErr /\ outcome = Returned /\ reads = 0
    /\ picked = <<>> /\ recovered = <<>> /\ recErr = NoErr
    /\ view = NoView /\ tally = NoTally /\ arith = NoArith

CallCreateShares ==
    /\ pc = "idle"
    /\ \E s \in Secrets, c \in ShareCounts, t \in Thresholds,
          r \in EntropySources :
        LET ret == CreateShares(s, c, t, r) IN
        /\ secret' = s /\ sharesCount' = c /\ threshold' = t /\ rnd' = r
        /\ shares' = ret.shares /\ err' = ret.err
        /\ outcome' = ret.outcome /\ reads' = ret.reads
    /\ pc' = "created"
    /\ UNCHANGED <<recoverVars, view, tally, arith>>

\* a selection of the shares CreateShares returned
CallRecoverSecret ==
    /\ pc = "created" /\ outcome = Returned /\ err = NoErr
    /\ \E sel \in Picks(Len(shares)) :
        LET in == [i \in 1..Len(sel) |-> shares[sel[i]]]
            ret == RecoverSecret(in) IN
        /\ picked' = in
        /\ recovered' = ret.secret /\ recErr' = ret.err
    /\ pc' = "recovered"
    /\ UNCHANGED <<callVars, view, tally, arith>>

\* shares that come from elsewhere
CallRecoverMade ==
    /\ pc = "idle"
    /\ \E in \in MadeSets :
        LET ret == RecoverSecret(in) IN
        /\ picked' = in
        /\ recovered' = ret.secret /\ recErr' = ret.err
    /\ pc' = "recovered"
    /\ UNCHANGED <<callVars, view, tally, arith>>

Next == CallCreateShares \/ CallRecoverSecret \/ CallRecoverMade

Spec == Init /\ [][Next]_vars

(***************************************************************************)
(* The secrecy check: one byte offset of a CreateShares call is dealt to a *)
(* holder of k < threshold shares, who then considers another secret byte. *)
(***************************************************************************)
Deal ==
    /\ pc = "idle"
    /\ \E t \in SecrecyThresholds, s \in SecretBytes :
        \E k \in 1..(t - 1) :
            \E xs \in holderSets(k) :
                LET ys == shareBytes(xs, s, randRead(DealtSource, 1, t))
                IN view' = [threshold |-> t, xs |-> xs, ys |-> ys,
                            secretByte |-> s,
                            count |-> consistent(t, xs, ys, s)]
    /\ pc' = "dealt"
    /\ UNCHANGED <<callVars, recoverVars, tally, arith>>

Consider ==
    /\ pc = "dealt"
    /\ \E c \in CandidateBytes \ {view.secretByte} :
        tally' = [candidate |-> c,
                  count |-> consistent(view.threshold, view.xs, view.ys, c)]
    /\ pc' = "considered"
    /\ UNCHANGED <<callVars, recoverVars, view, arith>>

SecrecyNext == Deal \/ Consider

SecrecySpec == Init /\ [][SecrecyNext]_vars

(***************************************************************************)
(* The field arithmetic on its own: two bytes are multiplied and the       *)
(* product is divided by the second.                                       *)
(***************************************************************************)
MulDiv ==
    /\ pc = "idle"
    /\ \E x \in Byte, y \in Byte :
        arith' = [x |-> x, y |-> y, product |-> mul(x, y),
                  quotient |-> div(mul(x, y), y)]
    /\ pc' = "computed"
    /\ UNCHANGED <<callVars, recoverVars, view, tally>>

FieldNext == MulDiv

FieldSpec == Init /\ [][FieldNext]_vars

(***************************************************************************)
(* The properties.                                                         *)
(***************************************************************************)
\* the index bytes of a share set are pairwise distinct
distinctIndices(ss) ==
    \A a, b \in 1..Len(ss) : a # b => ss[a][1] # ss[b][1]

\* C1: whenever CreateShares returned a share set without error,
\* RecoverSecret on any selection of at least threshold (and at least 2) of
\* those shares with pairwise distinct indices, in any order, returns no
\* error and the original secret.
RoundTrip ==
    (/\ pc = "recovered" /\ shares # <<>>
     /\ Len(picked) >= threshold /\ Len(picked) >= 2
     /\ distinctIndices(picked))
        => (recErr = NoErr /\ recovered = secret)

\* three of 255 shares of a threshold-3 sharing, not in ascending order
RoundTripWitness ==
    /\ pc = "recovered" /\ shares # <<>>
    /\ sharesCount = 255 /\ threshold = 3 /\ Len(picked) = 3
    /\ picked[1][1] = 255 /\ picked[2][1] = 1 /\ picked[3][1] = 2
    /\ recErr = NoErr /\ recovered = secret /\ Len(secret) = 33

\* C2: the number of choices of the random coefficients that give the share
\* bytes a holder of fewer than threshold shares sees is the same for the
\* secret byte dealt and for any other secret byte.
Secrecy ==
    pc = "considered" => tally.count = view.count

\* two shares of a threshold-3 sharing, considered for another secret byte
SecrecyWitness ==
    /\ pc = "considered"
    /\ view.threshold = 3 /\ view.xs = <<2, 255>>
    /\ view.secretByte = 116 /\ tally.candidate = 255
    /\ tally.count = 1 /\ view.count = 1

\* C3: CreateShares accepts every secret of 1..65534 bytes with sharesCount
\* in 2..255 and threshold in 2..sharesCount when the entropy source
\* succeeds: it returns a share set and a nil error.
AcceptsEverySecret ==
    (/\ pc = "created"
     /\ Len(secret) \in 1..65534
     /\ sharesCount \in 2..255 /\ threshold \in 2..sharesCount
     /\ rnd.failAt = 0)
        => (outcome = Returned /\ err = NoErr /\ shares # <<>>)

\* C4: CreateShares rejects a threshold of 1 with ErrInvalidThreshold and
\* no shares, for a secret it accepts and sharesCount in 2..255.
RejectsThresholdOne ==
    (/\ pc = "created"
     /\ Len(secret) \in MinSecretBytes..MaxSecretBytes
     /\ sharesCount \in 2..255 /\ threshold = 1)
        => (err = ErrInvalidThreshold /\ shares = <<>>)

\* C5: RecoverSecret on the two shares 01 B9 FA 07 E1 85 and
\* 02 F5 40 9B 45 11 returns no error and the secret 74 65 73 74 00.
KnownAnswer ==
    (pc = "recovered" /\ picked = KatShares)
        => (recErr = NoErr /\ recovered = KatSecret)

\* C6: neither operation ends in a panic, whatever its input.
NeverPanics ==
    outcome = Returned

\* the error the validation order of the specification gives an input
firstViolated(sec, cnt, thr) ==
    IF Len(sec) = 0 THEN ErrSecretRequired
    ELSE IF Len(sec) > 65534 THEN ErrSecretTooLarge
    ELSE IF cnt < 2 THEN ErrTooFewShares
    ELSE IF cnt > 255 THEN ErrTooManyShares
    ELSE IF thr > cnt THEN ErrInvalidThreshold
    ELSE NoErr

\* C7: an input that violates one or more of the checks empty secret,
\* length > 65534, sharesCount < 2, sharesCount > 255, threshold >
\* sharesCount gets the error of the earliest violated one, and no shares.
ValidationPrecedence ==
    (pc = "created"
     /\ firstViolated(secret, sharesCount, threshold) # NoErr)
        => (/\ err = firstViolated(secret, sharesCount, threshold)
            /\ shares = <<>>)

\* the error the validation of RecoverSecret is said to give a share set
recoverVerdict(ss) ==
    IF Len(ss) < 2 THEN ErrTooFewShares
    ELSE IF Len(ss) > 255 THEN ErrTooManyShares
    ELSE IF Len(ss[1]) < 33 \/ Len(ss[1]) > 65535 THEN ErrInvalidShare
    ELSE IF \E i \in 2..Len(ss) : Len(ss[i]) # Len(ss[1])
        THEN ErrInvalidShare
    ELSE NoErr

ShareLayout ==
    (pc = "created" /\ outcome = Returned /\ err = NoErr)
        => (/\ Len(shares) = sharesCount
            /\ \A p \in 1..Len(shares) :
                /\ Len(shares[p]) = Len(secret) + 1
                /\ shares[p][1] = p
                /\ shares[p][1] \in 1..255
            /\ distinctIndices(shares))

\* 255 shares: the last index byte is 255
ShareLayoutWitness ==
    /\ pc = "created" /\ outcome = Returned /\ err = NoErr
    /\ sharesCount = 255 /\ Len(shares) = 255 /\ shares[255][1] = 255
    /\ Len(secret) = 32

\* the entropy source returned an error to this CreateShares call
sourceFailed ==
    pc = "created" /\ threshold > 0 /\ rnd.failAt \in 1..reads

\* C10: when a read of the entropy source returns an error, at any byte
\* offset, CreateShares returns the error and a nil share set, and makes no
\* further read.
EntropyFailureAborts ==
    sourceFailed
        => (/\ outcome = Returned /\ err = ErrEntropy
            /\ shares = <<>>
            /\ reads = rnd.failAt)

\* the read of the last byte offset fails, after 31 offsets were written
EntropyFailureWitness ==
    /\ sourceFailed
    /\ rnd.failAt = 32 /\ Len(secret) = 32 /\ sharesCount = 2
    /\ threshold = 2 /\ err = ErrEntropy

\* C11: for all bytes a, b: div(mul(a, b), b) = a when b # 0,
\* mul(a, b) = mul(b, a), mul(a, 0) = 0 and div(a, 0) = 0.
FieldLaws ==
    pc = "computed"
        => (/\ arith.y # 0 => arith.quotient = arith.x
            /\ arith.product = mul(arith.y, arith.x)
            /\ mul(arith.x, 0) = 0
            /\ div(arith.x, 0) = 0)

\* two operands whose logarithms add up to 508, the last table entry
FieldLawsWitness ==
    /\ pc = "computed"
    /\ arith.x = 246 /\ arith.y = 246
    /\ arith.product = 82 /\ arith.quotient = 246
=============================================================================
